---- MODULE Spec2Model ----
(***************************************************************************)
(* Accounting core of the hard module (x/hard): the Deposit and Withdraw   *)
(* handlers and the supply interest sync of keeper/deposit.go, with the    *)
(* Borrow/Repay handlers, the borrow interest sync, the loan-to-value      *)
(* check and the LTV index the handlers call.                              *)
(*                                                                         *)
(* sdk.Dec values are fixed-point integers with denominator DecScale;      *)
(* sdk.Coins values are functions from Denoms to naturals where 0 means    *)
(* the denom is absent (sdk.Coins holds no zero coin), and a range over    *)
(* sdk.Coins visits the denoms in sorted order.                            *)
(***************************************************************************)
EXTENDS Integers, Sequences, FiniteSets, TLC

\* ------------------------------------------------------------ bounds
\* Denominator of the fixed-point representation of sdk.Dec.
DecScale == 100
\* Number of times the periodic driver may raise a global interest factor.
MaxAccruals == 2
\* Number of calls (handlers, syncs and driver runs) in a behaviour.
MaxSteps == 5
\* Largest amount of the deposit whose syncs SyncSpec follows.
MaxDeposit == 100
MaxMarkets == 2

\* ------------------------------------------------------------ genesis
Accounts == {"a1", "a2"}
Denoms == {"bnb", "ukava", "usdx"}
SortedDenoms == <<"bnb", "ukava", "usdx">>

OneDec == DecScale
ZeroDec == 0 * DecScale

\* The money markets of the keeper test's genesis: usdx and ukava.
MoneyMarketDenoms == {"ukava", "usdx"}
\* BorrowLimit.LoanToValue of each money market (usdx 1.0, ukava 0.8).
LoanToValue(d) == IF d = "usdx" THEN OneDec ELSE (8 * DecScale) \div 10
\* Posted prices of the pricefeed genesis (usdx 1.00, kava 2.00).
Price(d) == IF d = "ukava" THEN 2 * OneDec ELSE OneDec

EmptyCoins == [d \in Denoms |-> 0]
Coin(d, n) == [EmptyCoins EXCEPT ![d] = n]
Coins2(d1, n1, d2, n2) == [EmptyCoins EXCEPT ![d1] = n1, ![d2] = n2]

InitialBank ==
    [a \in Accounts |->
        IF a = "a1" THEN [EmptyCoins EXCEPT !["ukava"] = 250, !["usdx"] = 100, !["bnb"] = 10]
        ELSE Coin("ukava", 50)]
InitialModuleCoins == Coins2("ukava", 1000, "usdx", 1000)

VARIABLES
    bank,           \* spendable coins of each account
    pool,           \* coins of the module account
    deposits,       \* Deposit store: depositor -> [Amount, Index]
    borrows,        \* Borrow store: borrower -> [Amount, Index]
    supplyFactor,   \* global supply interest factor store: denom -> Dec
    borrowFactor,   \* global borrow interest factor store: denom -> Dec
    ltvIndex,       \* LTV index: set of <<ltv, account>> entries
    accruals,       \* number of factor updates made by the periodic driver
    steps,          \* number of calls made so far
    last,           \* the last call: [op, addr, payer, coins, err, max, again, had]
    trail,          \* the keeper calls the last Deposit or Withdraw made, in order
    params,         \* the Params value proposed: [Active, MoneyMarkets, CheckLtvIndexCount]
    validated       \* the last validation of params: [by, at, err]

vars == <<bank, pool, deposits, borrows, supplyFactor, borrowFactor,
          ltvIndex, accruals, steps, last, trail, params, validated>>

\* ------------------------------------------------------------ sdk.Coins
CoinsAdd(a, b) == [d \in Denoms |-> a[d] + b[d]]
CoinsSub(a, b) == [d \in Denoms |-> a[d] - b[d]]
\* SafeSub's second result: some amount of the difference is negative.
IsAnyNegative(a, b) == \E d \in Denoms : a[d] < b[d]
CoinDenoms(c) == {d \in Denoms : c[d] > 0}
DenomsSubsetOf(a, b) == CoinDenoms(a) \subseteq CoinDenoms(b)

\* ------------------------------------------------------------ sdk.Dec
NewDecFromInt(n) == n * DecScale

\* chopPrecisionAndRound: divide by the denominator with banker's rounding.
ChopPrecisionAndRound(x) ==
    LET quo == x \div DecScale
        rem == x % DecScale
        five == DecScale \div 2
    IN  IF rem = 0 THEN quo
        ELSE IF rem < five THEN quo
        ELSE IF rem > five THEN quo + 1
        ELSE IF quo % 2 = 0 THEN quo ELSE quo + 1

DecMul(x, y) == ChopPrecisionAndRound(x * y)
DecQuo(x, y) == ChopPrecisionAndRound((x * DecScale * DecScale) \div y)
\* TruncateInt drops the fraction, towards zero.
TruncateInt(x) == IF x >= 0 THEN x \div DecScale ELSE -((-x) \div DecScale)

\* ------------------------------------------------------------ stores
Put(store, k, v) == [x \in DOMAIN store \cup {k} |-> IF x = k THEN v ELSE store[x]]
Delete(store, k) == [x \in DOMAIN store \ {k} |-> store[x]]
Found(store, k) == k \in DOMAIN store

\* GetSupplyInterestFactor / GetBorrowInterestFactor: the zero Dec when absent.
GetInterestFactor(factors, d) == IF Found(factors, d) THEN factors[d] ELSE ZeroDec

NewInterestFactor(d, v) == [Denom |-> d, Value |-> v]

\* ------------------------------------------------------------ interest sync
\* Position of the first index entry of denom d, 0 when there is none.
FoundAtIndex(index, d) ==
    IF \E i \in 1..Len(index) : index[i].Denom = d
    THEN CHOOSE i \in 1..Len(index) :
            /\ index[i].Denom = d
            /\ \A j \in 1..(i - 1) : index[j].Denom # d
    ELSE 0

\* Interest earned on storedAmount since the user's last factor.
CalculateInterest(amount, userLastInterestFactor, interestFactorValue) ==
    LET storedAmount == NewDecFromInt(amount)
    IN  TruncateInt(DecMul(DecQuo(storedAmount, userLastInterestFactor),
                           interestFactorValue) - storedAmount)

\* Faulty variant: the snapshot of the user's index is left as it was.
StaleIndex(index, at, f) == index

\* We're synced up: the user's index value becomes the global index value.
SyncedIndex(index, at, f) == [index EXCEPT ![at].Value = f]

\* The loop over the coins of the position: acc = [Index, Interest].
RECURSIVE SyncLoop(_, _, _, _)
SyncLoop(amount, acc, factors, i) ==
    IF i > Len(SortedDenoms) THEN acc
    ELSE LET d == SortedDenoms[i]
             at == FoundAtIndex(acc.Index, d)
             f == GetInterestFactor(factors, d)
         IN  IF amount[d] = 0 THEN SyncLoop(amount, acc, factors, i + 1)
             ELSE IF at = 0
             THEN SyncLoop(amount,
                           [acc EXCEPT !.Index = Append(@, NewInterestFactor(d, f))],
                           factors, i + 1)
             ELSE SyncLoop(amount,
                           [Index |-> SyncedIndex(acc.Index, at, f),
                            Interest |-> [acc.Interest EXCEPT ![d] =
                                @ + CalculateInterest(amount[d], acc.Index[at].Value, f)]],
                           factors, i + 1)

SyncPosition(position, factors) ==
    LET r == SyncLoop(position.Amount,
                      [Index |-> position.Index, Interest |-> EmptyCoins],
                      factors, 1)
    IN  [Amount |-> CoinsAdd(position.Amount, r.Interest), Index |-> r.Index]

\* Faulty variant: the records of all accounts are synced.
SyncAllSupplyInterest(store, factors, addr) ==
    [a \in DOMAIN store |-> SyncPosition(store[a], factors)]

\* Faulty variant: no interest is credited.
UnsyncedSupplyInterest(store, factors, addr) == store

\* The Deposit store after SyncSupplyInterest(addr).
SyncSupplyInterest(store, factors, addr) ==
    IF ~Found(store, addr) THEN store
    ELSE Put(store, addr, SyncPosition(store[addr], factors))

\* The Borrow store after SyncBorrowInterest(addr).
SyncBorrowInterest(store, factors, addr) ==
    IF ~Found(store, addr) THEN store
    ELSE Put(store, addr, SyncPosition(store[addr], factors))

\* ------------------------------------------------------------ loan-to-value
RECURSIVE UsdValueFrom(_, _)
UsdValueFrom(amount, i) ==
    IF i > Len(SortedDenoms) THEN ZeroDec
    ELSE DecMul(NewDecFromInt(amount[SortedDenoms[i]]), Price(SortedDenoms[i]))
         + UsdValueFrom(amount, i + 1)

UsdValue(amount) == UsdValueFrom(amount, 1)

\* The minimum max-LTV over the money markets of the deposited denoms.
EffectiveLtv(amount) ==
    LET ds == CoinDenoms(amount)
    IN  IF ds = {} THEN ZeroDec
        ELSE LoanToValue(CHOOSE d \in ds : \A e \in ds : LoanToValue(d) <= LoanToValue(e))

IsWithinValidLtvRange(depositAmount, borrowAmount) ==
    \/ UsdValue(borrowAmount) = ZeroDec
    \/ UsdValue(borrowAmount) <= DecMul(UsdValue(depositAmount), EffectiveLtv(depositAmount))

CalculateLtv(depositAmount, borrowAmount) ==
    IF UsdValue(depositAmount) = ZeroDec THEN ZeroDec
    ELSE DecQuo(UsdValue(borrowAmount), UsdValue(depositAmount))

\* The stored standing of addr: its ratio, and whether it is tracked at all.
GetStoreLTV(deps, bors, addr) ==
    IF Found(deps, addr) /\ Found(bors, addr)
    THEN [ltv |-> CalculateLtv(deps[addr].Amount, bors[addr].Amount), present |-> TRUE]
    ELSE [ltv |-> ZeroDec, present |-> FALSE]

UpdateItemInLtvIndex(index, deps, bors, prev, addr) ==
    LET curr == GetStoreLTV(deps, bors, addr)
        removed == IF prev.present THEN index \ {<<prev.ltv, addr>>} ELSE index
    IN  IF curr.present THEN removed \cup {<<curr.ltv, addr>>} ELSE removed

\* ------------------------------------------------------------ requests
\* The Deposit calls made: <<depositor, coins>>.
DepositCalls ==
    ({"a1"} \X {Coin("ukava", 100), Coin("ukava", 10), Coin("usdx", 100),
                Coin("bnb", 10), Coins2("ukava", 10, "bnb", 20), EmptyCoins})
    \cup ({"a2"} \X {Coin("ukava", 10), Coins2("ukava", 10, "usdx", 100)})
\* The Withdraw calls made: <<depositor, coins>>.
WithdrawCalls ==
    ({"a1"} \X {Coin("ukava", 100), Coin("ukava", 110), Coin("usdx", 100)})
    \cup ({"a2"} \X {Coin("ukava", 100)})
\* The Borrow calls made: <<borrower, coins>>.
BorrowCalls ==
    ({"a1"} \X {Coin("ukava", 50), Coin("ukava", 30), Coin("ukava", 31),
                Coin("bnb", 10)})
    \cup ({"a2"} \X {Coin("ukava", 30)})
\* The Repay calls made: <<payer, borrower, coins>>.
RepayCalls ==
    ({"a1"} \X {"a1"} \X {Coin("ukava", 10), Coin("ukava", 51), Coin("ukava", 60),
                          Coins2("ukava", 10, "bnb", 10)})
    \cup ({"a2"} \X {"a1"} \X {Coin("ukava", 10), Coin("ukava", 51), Coin("ukava", 60)})
    \cup ({"a2"} \X {"a2"} \X {Coin("ukava", 10)})
\* The growth of a global factor between two runs of the periodic driver.
AccrualRates == {DecScale \div 10}

\* Every call counts against the length of the behaviour.
Tick == steps < MaxSteps /\ steps' = steps + 1

NoMax == <<>>
\* The record of a call; again tells that the call before it was the same
\* operation for the same account, had that the account had a Deposit record
\* when the call was made.
Call(op, addr, payer, coins, err, max) ==
    [op |-> op, addr |-> addr, payer |-> payer, coins |-> coins, err |-> err,
     max |-> max, again |-> (last.op = op /\ last.addr = addr),
     had |-> Found(deposits, addr)]

\* ------------------------------------------------------------ transfers
\* Faulty variant: the module account is credited but the sender is never debited.
SendCoinsNoDebit(b, p, sender, coins) ==
    IF IsAnyNegative(b[sender], coins)
    THEN [err |-> "insufficient account funds", bank |-> b, pool |-> p]
    ELSE [err |-> "ok", bank |-> b, pool |-> CoinsAdd(p, coins)]

\* Faulty variant: the coins are moved denom by denom, and the denoms the sender can
\* afford have moved when the call fails on one it cannot.
SendCoinsPartial(b, p, sender, coins) ==
    LET moved == [d \in Denoms |-> IF b[sender][d] >= coins[d] THEN coins[d] ELSE 0]
    IN  [err |-> IF IsAnyNegative(b[sender], coins)
                 THEN "insufficient account funds" ELSE "ok",
         bank |-> [b EXCEPT ![sender] = CoinsSub(@, moved)],
         pool |-> CoinsAdd(p, moved)]

\* supplyKeeper.SendCoinsFromAccountToModule: all of coins move from the
\* sender to the module account, or none does and the call fails.
SendCoinsFromAccountToModule(b, p, sender, coins) ==
    IF IsAnyNegative(b[sender], coins)
    THEN [err |-> "insufficient account funds", bank |-> b, pool |-> p]
    ELSE [err |-> "ok", bank |-> [b EXCEPT ![sender] = CoinsSub(@, coins)],
          pool |-> CoinsAdd(p, coins)]

\* supplyKeeper.SendCoinsFromModuleToAccount: all of coins move from the
\* module account to the recipient, or none does and the call fails.
SendCoinsFromModuleToAccount(b, p, recipient, coins) ==
    IF IsAnyNegative(p, coins)
    THEN [err |-> "insufficient account funds", bank |-> b, pool |-> p]
    ELSE [err |-> "ok", bank |-> [b EXCEPT ![recipient] = CoinsAdd(@, coins)],
          pool |-> CoinsSub(p, coins)]

\* ------------------------------------------------------------ Deposit
\* Faulty variant: the factor is written whether or not one is stored.
AlwaysNeedsInterestFactor(factors, d) == d \in MoneyMarketDenoms

\* A denom gets a global factor of 1.0 when none is stored and it has a
\* money market.
NeedsInterestFactor(factors, d) == ~Found(factors, d) /\ d \in MoneyMarketDenoms

\* Set any new denoms' global interest index to 1.0.
RECURSIVE InitInterestFactors(_, _, _)
InitInterestFactors(factors, coins, i) ==
    IF i > Len(SortedDenoms) THEN factors
    ELSE LET d == SortedDenoms[i]
         IN  IF coins[d] > 0 /\ NeedsInterestFactor(factors, d)
             THEN InitInterestFactors(Put(factors, d, OneDec), coins, i + 1)
             ELSE InitInterestFactors(factors, coins, i + 1)

\* The denoms a deposit may be made in.
DepositDenoms == MoneyMarketDenoms

\* Faulty variant: no denom is rejected.
ValidateAnyDeposit(coins) == "ok"

ValidateDeposit(coins) ==
    IF \E d \in CoinDenoms(coins) : d \notin DepositDenoms
    THEN "ErrInvalidDepositDenom" ELSE "ok"

\* Faulty variant: no index entry is made for the deposited coins.
NoNewInterestFactors(coins, held, factors, i) == <<>>

\* One new index entry, at the current global factor, for every coin whose
\* denom is not among held, in the order of the coins.
RECURSIVE NewInterestFactors(_, _, _, _)
NewInterestFactors(coins, held, factors, i) ==
    IF i > Len(SortedDenoms) THEN <<>>
    ELSE LET d == SortedDenoms[i]
             rest == NewInterestFactors(coins, held, factors, i + 1)
         IN  IF coins[d] > 0 /\ ~DenomsSubsetOf(Coin(d, coins[d]), held)
             THEN <<NewInterestFactor(d, GetInterestFactor(factors, d))>> \o rest
             ELSE rest

\* Faulty variant: the coins replace the amount held instead of adding to it.
OverwrittenAmount(currAmount, coins) == coins

\* The new amount of a position that held currAmount and receives coins.
NewAmount(currAmount, coins) == CoinsAdd(currAmount, coins)

\* The position written by a Deposit (or Borrow) of coins into store.
MergedPosition(store, addr, coins, factors) ==
    IF Found(store, addr)
    THEN [Amount |-> NewAmount(store[addr].Amount, coins),
          Index |-> NewInterestFactors(coins, store[addr].Amount, factors, 1)
                    \o store[addr].Index]
    ELSE [Amount |-> coins,
          Index |-> NewInterestFactors(coins, EmptyCoins, factors, 1)]

\* The calls every Deposit makes, up to its validation (lines 27-36).
DepositTrail ==
    <<"GetStoreLTV", "SyncBorrowInterest", "SyncSupplyInterest", "ValidateDeposit">>

Deposit(depositor, coins) ==
    LET sf1 == InitInterestFactors(supplyFactor, coins, 1)
        prev == GetStoreLTV(deposits, borrows, depositor)
        bor1 == SyncBorrowInterest(borrows, borrowFactor, depositor)
        dep1 == SyncSupplyInterest(deposits, sf1, depositor)
        verr == ValidateDeposit(coins)
        sent == SendCoinsFromAccountToModule(bank, pool, depositor, coins)
        dep2 == Put(dep1, depositor, MergedPosition(dep1, depositor, coins, sf1))
    IN  /\ Tick
        /\ UNCHANGED <<params, validated>>
        /\ supplyFactor' = sf1
        /\ borrows' = bor1
        /\ UNCHANGED <<borrowFactor, accruals>>
        /\ IF verr # "ok"
           THEN /\ deposits' = dep1
                /\ UNCHANGED <<bank, pool, ltvIndex>>
                /\ last' = Call("Deposit", depositor, depositor, coins, verr, NoMax)
                /\ trail' = DepositTrail
           ELSE IF sent.err # "ok"
           THEN /\ deposits' = dep1
                /\ bank' = sent.bank
                /\ pool' = sent.pool
                /\ UNCHANGED ltvIndex
                /\ last' = Call("Deposit", depositor, depositor, coins,
                                "ErrBorrowExceedsAvailableBalance", NoMax)
                /\ trail' = DepositTrail \o <<"SendCoinsFromAccountToModule">>
           ELSE /\ bank' = sent.bank
                /\ pool' = sent.pool
                /\ deposits' = dep2
                /\ ltvIndex' = UpdateItemInLtvIndex(ltvIndex, dep2, bor1, prev, depositor)
                /\ last' = Call("Deposit", depositor, depositor, coins, "ok", NoMax)
                /\ trail' = DepositTrail \o <<"SendCoinsFromAccountToModule",
                                               "SetDeposit", "UpdateItemInLtvIndex">>

\* ------------------------------------------------------------ Withdraw
\* Faulty variant: the check is made on the deposit as it stands, not as proposed.
CurrentDepositAmount(depositAmount, coins) == depositAmount

\* The deposit amount the loan-to-value check of a Withdraw is made on.
ProposedDepositAmount(depositAmount, coins) == CoinsSub(depositAmount, coins)

\* The calls every Withdraw makes, up to the lookup of the record (lines 170-178).
WithdrawTrail ==
    <<"GetStoreLTV", "SyncBorrowInterest", "SyncSupplyInterest", "GetDeposit">>
\* The calls of a Withdraw whose request is valid, up to its transfer (lines 170-203).
WithdrawSent ==
    WithdrawTrail \o <<"SafeSub", "IsWithinValidLtvRange", "SendCoinsFromModuleToAccount">>

Withdraw(depositor, coins) ==
    LET prev == GetStoreLTV(deposits, borrows, depositor)
        bor1 == SyncBorrowInterest(borrows, borrowFactor, depositor)
        dep1 == SyncSupplyInterest(deposits, supplyFactor, depositor)
        borrowAmount == IF Found(bor1, depositor) THEN bor1[depositor].Amount
                        ELSE EmptyCoins
        sent == SendCoinsFromModuleToAccount(bank, pool, depositor, coins)
        Fail(err, calls) ==
            /\ deposits' = dep1
            /\ UNCHANGED <<bank, pool, ltvIndex>>
            /\ last' = Call("Withdraw", depositor, depositor, coins, err, NoMax)
            /\ trail' = calls
    IN  /\ Tick
        /\ UNCHANGED <<params, validated>>
        /\ borrows' = bor1
        /\ UNCHANGED <<supplyFactor, borrowFactor, accruals>>
        /\ IF ~Found(dep1, depositor) THEN Fail("ErrDepositNotFound", WithdrawTrail)
           ELSE IF IsAnyNegative(dep1[depositor].Amount, coins)
           THEN Fail("ErrNegativeBorrowedCoins", WithdrawTrail \o <<"SafeSub">>)
           ELSE IF ~IsWithinValidLtvRange(
                        ProposedDepositAmount(dep1[depositor].Amount, coins),
                        borrowAmount)
           THEN Fail("ErrInvalidWithdrawAmount",
                     WithdrawTrail \o <<"SafeSub", "IsWithinValidLtvRange">>)
           ELSE IF sent.err # "ok"
           THEN /\ deposits' = dep1
                /\ bank' = sent.bank
                /\ pool' = sent.pool
                /\ UNCHANGED ltvIndex
                /\ last' = Call("Withdraw", depositor, depositor, coins,
                                "ErrInsufficientFunds", NoMax)
                /\ trail' = WithdrawSent
           ELSE /\ bank' = sent.bank
                /\ pool' = sent.pool
                /\ last' = Call("Withdraw", depositor, depositor, coins, "ok", NoMax)
                /\ IF dep1[depositor].Amount = coins
                   THEN /\ deposits' = Delete(dep1, depositor)
                        /\ UNCHANGED ltvIndex
                        /\ trail' = WithdrawSent \o <<"DeleteDeposit">>
                   ELSE LET dep2 == Put(dep1, depositor,
                                        [dep1[depositor] EXCEPT
                                            !.Amount = CoinsSub(@, coins)])
                        IN  /\ deposits' = dep2
                            /\ ltvIndex' = UpdateItemInLtvIndex(ltvIndex, dep2, bor1,
                                                                prev, depositor)
                            /\ trail' = WithdrawSent \o <<"SetDeposit",
                                                           "UpdateItemInLtvIndex">>

\* GetTotalDeposited: the module account's balance of the denom.
GetTotalDeposited(depositDenom) == pool[depositDenom]

\* ------------------------------------------------------------ Borrow
\* Every borrowed denom needs a money market (no market of the genesis caps
\* its aggregate borrows: HasMaxLimit is false).
ValidateBorrow(coins) ==
    IF \E d \in CoinDenoms(coins) : d \notin MoneyMarketDenoms
    THEN "ErrMarketNotFound" ELSE "ok"

Borrow(borrower, coins) ==
    LET bf1 == InitInterestFactors(borrowFactor, coins, 1)
        prev == GetStoreLTV(deposits, borrows, borrower)
        verr == ValidateBorrow(coins)
        bor1 == SyncBorrowInterest(borrows, bf1, borrower)
        dep1 == SyncSupplyInterest(deposits, supplyFactor, borrower)
        depositAmount == IF Found(dep1, borrower) THEN dep1[borrower].Amount
                         ELSE EmptyCoins
        borrow == MergedPosition(bor1, borrower, coins, bf1)
        bor2 == Put(bor1, borrower, borrow)
        sent == SendCoinsFromModuleToAccount(bank, pool, borrower, coins)
    IN  /\ Tick
        /\ UNCHANGED <<params, validated>>
        /\ trail' = <<>>
        /\ borrowFactor' = bf1
        /\ UNCHANGED <<supplyFactor, accruals>>
        /\ IF verr # "ok"
           THEN /\ UNCHANGED <<borrows, deposits, bank, pool, ltvIndex>>
                /\ last' = Call("Borrow", borrower, borrower, coins, verr, NoMax)
           ELSE IF ~IsWithinValidLtvRange(depositAmount, borrow.Amount)
           THEN /\ borrows' = bor1
                /\ deposits' = dep1
                /\ UNCHANGED <<bank, pool, ltvIndex>>
                /\ last' = Call("Borrow", borrower, borrower, coins,
                                "ErrInvalidBorrow", NoMax)
           ELSE IF sent.err # "ok"
           THEN /\ borrows' = bor1
                /\ deposits' = dep1
                /\ bank' = sent.bank
                /\ pool' = sent.pool
                /\ UNCHANGED ltvIndex
                /\ last' = Call("Borrow", borrower, borrower, coins,
                                "ErrInsufficientFunds", NoMax)
           ELSE /\ bank' = sent.bank
                /\ pool' = sent.pool
                /\ borrows' = bor2
                /\ deposits' = dep1
                /\ ltvIndex' = UpdateItemInLtvIndex(ltvIndex, dep1, bor2, prev, borrower)
                /\ last' = Call("Borrow", borrower, borrower, coins, "ok", NoMax)

\* ------------------------------------------------------------ Repay
\* Faulty variant: the payment is the requested amount, not capped at what is owed.
UncappedPaymentAmount(owed, payment) == payment

\* The element-wise minimum of the owed and the requested amounts.
CalculatePaymentAmount(owed, payment) ==
    [d \in Denoms |-> IF payment[d] > owed[d] THEN owed[d] ELSE payment[d]]

\* The first denom, in the sorted order of the coins, among those of bad.
FirstDenom(bad) ==
    LET i == CHOOSE i \in 1..Len(SortedDenoms) :
                /\ SortedDenoms[i] \in bad
                /\ \A j \in 1..(i - 1) : SortedDenoms[j] \notin bad
    IN  SortedDenoms[i]

\* Faulty variant: one owed denom among the requested ones is enough.
ValidateRepayAnyDenom(owed, coins) == CoinDenoms(coins) \cap CoinDenoms(owed) # {}

\* Faulty variant: the payer's balance need only cover the capped payment.
RepayFundsCapped(owed, coins) ==
    [d \in Denoms |-> IF coins[d] > owed[d] THEN owed[d] ELSE coins[d]]

\* Every repaid denom must be owed: the keeper test rejects a repayment of
\* ukava and bnb against a debt in ukava with "account can only repay up to
\* 0bnb".
ValidateRepayDenoms(owed, coins) == DenomsSubsetOf(coins, owed)

\* The coins the payer's spendable balance must cover: the requested ones.
\* The keeper test rejects a request of 51 against a debt of 50 and a
\* balance of 50 with "account can only repay up to 50000000ukava".
RepayFundsRequired(owed, coins) == coins

Repay(payer, borrower, coins) ==
    LET prev == GetStoreLTV(deposits, borrows, borrower)
        bor1 == SyncBorrowInterest(borrows, borrowFactor, borrower)
        dep1 == SyncSupplyInterest(deposits, supplyFactor, borrower)
        owed == bor1[borrower].Amount
        payment == CalculatePaymentAmount(owed, coins)
        required == RepayFundsRequired(owed, coins)
        sent == SendCoinsFromAccountToModule(bank, pool, payer, payment)
        residual == CoinsSub(owed, payment)
        bor2 == IF residual = EmptyCoins THEN Delete(bor1, borrower)
                ELSE Put(bor1, borrower, [bor1[borrower] EXCEPT !.Amount = residual])
        notOwed == {d \in CoinDenoms(coins) : owed[d] = 0}
        short == {d \in CoinDenoms(coins) : bank[payer][d] < required[d]}
        Fail(err, max) ==
            /\ borrows' = bor1
            /\ UNCHANGED <<bank, pool, ltvIndex>>
            /\ last' = Call("Repay", borrower, payer, coins, err, max)
    IN  /\ Tick
        /\ UNCHANGED <<params, validated>>
        /\ trail' = <<>>
        /\ deposits' = dep1
        /\ UNCHANGED <<supplyFactor, borrowFactor, accruals>>
        /\ IF ~Found(bor1, borrower) THEN Fail("ErrBorrowNotFound", NoMax)
           ELSE IF ~ValidateRepayDenoms(owed, coins)
           THEN Fail("ErrExceedsOwedAmount", <<FirstDenom(notOwed), 0>>)
           ELSE IF short # {}
           THEN Fail("ErrInsufficientBalanceForRepay",
                     <<FirstDenom(short), bank[payer][FirstDenom(short)]>>)
           ELSE IF sent.err # "ok"
           THEN /\ borrows' = bor1
                /\ bank' = sent.bank
                /\ pool' = sent.pool
                /\ UNCHANGED ltvIndex
                /\ last' = Call("Repay", borrower, payer, coins,
                                "ErrInsufficientFunds", NoMax)
           ELSE /\ bank' = sent.bank
                /\ pool' = sent.pool
                /\ borrows' = bor2
                /\ ltvIndex' = UpdateItemInLtvIndex(ltvIndex, dep1, bor2, prev, borrower)
                /\ last' = Call("Repay", borrower, payer, coins, "ok", NoMax)

\* ------------------------------------------------------------ parameters
DefaultActive == TRUE
DefaultMoneyMarkets == <<>>
DefaultCheckLtvIndexCount == 10

NewParams(active, moneyMarkets, checkLtvIndexCount) ==
    [Active |-> active, MoneyMarkets |-> moneyMarkets,
     CheckLtvIndexCount |-> checkLtvIndexCount]

DefaultParams == NewParams(DefaultActive, DefaultMoneyMarkets, DefaultCheckLtvIndexCount)

\* No validation of params was made yet.
NotValidated == [by |-> "none", at |-> 0, err |-> "ok"]

\* sdk.ValidateDenom on the denoms proposed: a lower-case letter followed by
\* two or more lower-case letters or digits.
ValidateDenom(denom) ==
    IF denom \in {"ukava", "usdx", "bnb"} THEN "ok" ELSE "invalid denom"

\* Faulty variant: a loan-to-value above 1.0 is let through.
BorrowLimitValidateNoCeiling(bl) ==
    IF bl.MaximumLimit < ZeroDec THEN "maximum limit USD cannot be negative"
    ELSE IF ~(bl.LoanToValue > ZeroDec) THEN "loan-to-value must be a positive integer"
    ELSE "ok"

BorrowLimitValidate(bl) ==
    IF bl.MaximumLimit < ZeroDec THEN "maximum limit USD cannot be negative"
    ELSE IF ~(bl.LoanToValue > ZeroDec) THEN "loan-to-value must be a positive integer"
    ELSE IF bl.LoanToValue > OneDec THEN "loan-to-value cannot be greater than 1.0"
    ELSE "ok"

InterestRateModelValidate(irm) ==
    IF irm.BaseRateAPY < ZeroDec \/ irm.BaseRateAPY > OneDec
    THEN "Base rate APY must be between 0.0-1.0"
    ELSE IF irm.BaseMultiplier < ZeroDec THEN "Base multiplier must be positive"
    ELSE IF irm.Kink < ZeroDec \/ irm.Kink > OneDec THEN "Kink must be between 0.0-1.0"
    ELSE IF irm.JumpMultiplier < ZeroDec THEN "Jump multiplier must be positive"
    ELSE "ok"

MoneyMarketValidate(mm) ==
    IF ValidateDenom(mm.Denom) # "ok" THEN ValidateDenom(mm.Denom)
    ELSE IF BorrowLimitValidate(mm.BorrowLimit) # "ok"
    THEN BorrowLimitValidate(mm.BorrowLimit)
    ELSE IF InterestRateModelValidate(mm.InterestRateModel) # "ok"
    THEN InterestRateModelValidate(mm.InterestRateModel)
    ELSE IF mm.ReserveFactor < ZeroDec \/ mm.ReserveFactor > OneDec
    THEN "Reserve factor must be between 0.0-1.0"
    ELSE IF ~(mm.AuctionSize > 0) THEN "Auction size must be a positive integer"
    ELSE IF mm.KeeperRewardPercentage < ZeroDec \/ mm.KeeperRewardPercentage > OneDec
    THEN "Keeper reward percentage must be between 0.0-1.0"
    ELSE "ok"

\* MoneyMarkets.Validate from the i-th market on: the first error met.
RECURSIVE MoneyMarketsValidateFrom(_, _)
MoneyMarketsValidateFrom(mms, i) ==
    IF i > Len(mms) THEN "ok"
    ELSE IF MoneyMarketValidate(mms[i]) # "ok" THEN MoneyMarketValidate(mms[i])
    ELSE MoneyMarketsValidateFrom(mms, i + 1)

MoneyMarketsValidate(mms) == MoneyMarketsValidateFrom(mms, 1)

validateActiveParam(i) == IF i \in BOOLEAN THEN "ok" ELSE "invalid parameter type"

validateMoneyMarketParams(i) == MoneyMarketsValidate(i)

validateCheckLtvIndexCount(ltvCheckCount) ==
    IF ltvCheckCount < 0 THEN "CheckLtvIndexCount param must be positive" ELSE "ok"

ParamsValidate(p) ==
    IF validateActiveParam(p.Active) # "ok" THEN validateActiveParam(p.Active)
    ELSE IF validateMoneyMarketParams(p.MoneyMarkets) # "ok"
    THEN validateMoneyMarketParams(p.MoneyMarkets)
    ELSE validateCheckLtvIndexCount(p.CheckLtvIndexCount)

\* ------------------------------------------------------------ entry points
\* SyncSupplyInterest invoked on its own.
SyncSupply(addr) ==
    /\ Tick
    /\ UNCHANGED <<params, validated>>
    /\ trail' = <<>>
    /\ deposits' = SyncSupplyInterest(deposits, supplyFactor, addr)
    /\ last' = Call("SyncSupplyInterest", addr, addr, EmptyCoins, "ok", NoMax)
    /\ UNCHANGED <<bank, pool, borrows, supplyFactor, borrowFactor, ltvIndex, accruals>>

\* SyncBorrowInterest invoked on its own.
SyncBorrow(addr) ==
    /\ Tick
    /\ UNCHANGED <<params, validated>>
    /\ trail' = <<>>
    /\ borrows' = SyncBorrowInterest(borrows, borrowFactor, addr)
    /\ last' = Call("SyncBorrowInterest", addr, addr, EmptyCoins, "ok", NoMax)
    /\ UNCHANGED <<bank, pool, deposits, supplyFactor, borrowFactor, ltvIndex, accruals>>

\* The periodic driver compounds the global supply factor of a denom.
AccrueSupplyInterest(d, rate) ==
    /\ Tick
    /\ UNCHANGED <<params, validated>>
    /\ trail' = <<>>
    /\ accruals < MaxAccruals
    /\ Found(supplyFactor, d)
    /\ supplyFactor' = Put(supplyFactor, d, DecMul(supplyFactor[d], OneDec + rate))
    /\ accruals' = accruals + 1
    /\ last' = Call("AccrueSupplyInterest", "", "", EmptyCoins, "ok", NoMax)
    /\ UNCHANGED <<bank, pool, deposits, borrows, borrowFactor, ltvIndex>>

\* The periodic driver compounds the global borrow factor of a denom.
AccrueBorrowInterest(d, rate) ==
    /\ Tick
    /\ UNCHANGED <<params, validated>>
    /\ trail' = <<>>
    /\ accruals < MaxAccruals
    /\ Found(borrowFactor, d)
    /\ borrowFactor' = Put(borrowFactor, d, DecMul(borrowFactor[d], OneDec + rate))
    /\ accruals' = accruals + 1
    /\ last' = Call("AccrueBorrowInterest", "", "", EmptyCoins, "ok", NoMax)
    /\ UNCHANGED <<bank, pool, deposits, borrows, supplyFactor, ltvIndex>>

\* ------------------------------------------------------------ specification
EmptyStore == [x \in {} |-> 0]

Init ==
    /\ bank = InitialBank
    /\ pool = InitialModuleCoins
    /\ deposits = EmptyStore
    /\ borrows = EmptyStore
    /\ supplyFactor = EmptyStore
    /\ borrowFactor = EmptyStore
    /\ ltvIndex = {}
    /\ accruals = 0
    /\ steps = 0
    /\ last = [op |-> "Init", addr |-> "", payer |-> "", coins |-> EmptyCoins,
               err |-> "ok", max |-> NoMax, again |-> FALSE, had |-> FALSE]
    /\ trail = <<>>
    /\ params = DefaultParams
    /\ validated = NotValidated

Next ==
    \/ \E c \in DepositCalls : Deposit(c[1], c[2])
    \/ \E c \in WithdrawCalls : Withdraw(c[1], c[2])
    \/ \E c \in BorrowCalls : Borrow(c[1], c[2])
    \/ \E c \in RepayCalls : Repay(c[1], c[2], c[3])
    \/ \E a \in Accounts : SyncSupply(a)
    \/ \E a \in Accounts : SyncBorrow(a)
    \/ \E d \in Denoms, r \in AccrualRates : AccrueSupplyInterest(d, r)
    \/ \E d \in Denoms, r \in AccrualRates : AccrueBorrowInterest(d, r)

Spec == Init /\ [][Next]_vars

\* ------------------------------------------------------------ syncs alone
\* The rates of the periodic driver in SyncSpec: 3% and 7%.
SyncRates == {(3 * DecScale) \div 100, (7 * DecScale) \div 100}

\* The ukava supply factor at the time of the deposit SyncSpec follows: 1.0
\* raised once by 7%.
FactorAtDeposit == DecMul(OneDec, OneDec + (7 * DecScale) \div 100)

\* The state after Deposit(a2, 10 ukava) at factor 1.0, a raise of the ukava
\* supply factor by 7% and Deposit(a1, n ukava), for every n up to
\* MaxDeposit.
SyncInit ==
    \E n \in 1..MaxDeposit :
        /\ bank = [InitialBank EXCEPT !["a1"]["ukava"] = @ - n,
                                      !["a2"]["ukava"] = @ - 10]
        /\ pool = CoinsAdd(InitialModuleCoins, Coin("ukava", n + 10))
        /\ supplyFactor = [d \in {"ukava"} |-> FactorAtDeposit]
        /\ deposits = [a \in Accounts |->
              IF a = "a1"
              THEN [Amount |-> Coin("ukava", n),
                    Index |-> <<NewInterestFactor("ukava", FactorAtDeposit)>>]
              ELSE [Amount |-> Coin("ukava", 10),
                    Index |-> <<NewInterestFactor("ukava", OneDec)>>]]
        /\ borrows = EmptyStore
        /\ borrowFactor = EmptyStore
        /\ ltvIndex = {}
        /\ accruals = 0
        /\ steps = 0
        /\ last = [op |-> "Deposit", addr |-> "a1", payer |-> "a1",
                   coins |-> Coin("ukava", n), err |-> "ok", max |-> NoMax,
                   again |-> FALSE, had |-> FALSE]
        /\ trail = DepositTrail \o <<"SendCoinsFromAccountToModule", "SetDeposit",
                                      "UpdateItemInLtvIndex">>
        /\ params = DefaultParams
        /\ validated = NotValidated

\* The deposit of a1 is touched by syncs only, between factor updates.
SyncNext ==
    \/ SyncSupply("a1")
    \/ \E r \in SyncRates : AccrueSupplyInterest("ukava", r)

SyncSpec == SyncInit /\ [][SyncNext]_vars

\* ------------------------------------------------------------ validation alone
NewBorrowLimit(hasMaxLimit, maximumLimit, loanToValue) ==
    [HasMaxLimit |-> hasMaxLimit, MaximumLimit |-> maximumLimit,
     LoanToValue |-> loanToValue]

NewInterestRateModel(baseRateAPY, baseMultiplier, kink, jumpMultiplier) ==
    [BaseRateAPY |-> baseRateAPY, BaseMultiplier |-> baseMultiplier,
     Kink |-> kink, JumpMultiplier |-> jumpMultiplier]

NewMoneyMarket(denom, borrowLimit, spotMarketID, conversionFactor, auctionSize, interestRateModel, reserveFactor, keeperRewardPercentage) ==
    [Denom |-> denom, BorrowLimit |-> borrowLimit, SpotMarketID |-> spotMarketID,
     ConversionFactor |-> conversionFactor, InterestRateModel |-> interestRateModel,
     ReserveFactor |-> reserveFactor, AuctionSize |-> auctionSize,
     KeeperRewardPercentage |-> keeperRewardPercentage]

\* A market in the shape of the keeper test's ukava market: no aggregate cap,
\* loan-to-value 0.8, rates 0.05 / 2 / 0.8 / 10, reserve factor and keeper
\* reward 0.05.
BaseMarket ==
    NewMoneyMarket("ukava",
        NewBorrowLimit(FALSE, 1000 * OneDec, (8 * DecScale) \div 10),
        "kava:usd", 1000000, 1000,
        NewInterestRateModel((5 * DecScale) \div 100, 2 * OneDec,
                             (8 * DecScale) \div 10, 10 * OneDec),
        (5 * DecScale) \div 100, (5 * DecScale) \div 100)

\* The fields of a money market, as paths into the record.
MarketFields ==
    {<<"Denom">>, <<"SpotMarketID">>, <<"ConversionFactor">>, <<"ReserveFactor">>,
     <<"AuctionSize">>, <<"KeeperRewardPercentage">>,
     <<"BorrowLimit", "HasMaxLimit">>, <<"BorrowLimit", "MaximumLimit">>,
     <<"BorrowLimit", "LoanToValue">>,
     <<"InterestRateModel", "BaseRateAPY">>, <<"InterestRateModel", "BaseMultiplier">>,
     <<"InterestRateModel", "Kink">>, <<"InterestRateModel", "JumpMultiplier">>}

\* Values on both sides of every limit of a Dec field held to [0, 1].
UnitDecs == {ZeroDec - 1, ZeroDec, OneDec, OneDec + 1}
\* Values on both sides of the limit of a Dec field held to be non-negative.
SignedDecs == {ZeroDec - 1, ZeroDec}

\* The values proposed for a field.
FieldValues(field) ==
    CASE field = <<"Denom">> -> {"usdx", "", "Kava", "uk"}
      [] field = <<"SpotMarketID">> -> {""}
      [] field = <<"ConversionFactor">> -> {0}
      [] field = <<"AuctionSize">> -> {0 - 1, 0, 1}
      [] field = <<"BorrowLimit", "HasMaxLimit">> -> {TRUE}
      [] field \in {<<"BorrowLimit", "MaximumLimit">>,
                    <<"InterestRateModel", "BaseMultiplier">>,
                    <<"InterestRateModel", "JumpMultiplier">>} -> SignedDecs
      [] OTHER -> UnitDecs

\* The market with one field replaced.
WithField(mm, field, value) ==
    IF Len(field) = 1 THEN [mm EXCEPT ![field[1]] = value]
    ELSE [mm EXCEPT ![field[1]][field[2]] = value]

\* The markets that differ from mm in at most the one field.
Variations(mm) ==
    UNION {{WithField(mm, field, value) : value \in FieldValues(field)} :
           field \in MarketFields}

\* Markets that differ from BaseMarket in at most one and at most two fields.
OneOffMarkets == {BaseMarket} \cup Variations(BaseMarket)
TwoOffMarkets == UNION {Variations(mm) : mm \in OneOffMarkets}

\* n markets, all BaseMarket but the i-th.
Placed(mm, i, n) == [j \in 1..n |-> IF j = i THEN mm ELSE BaseMarket]

\* The MoneyMarkets proposed: none, up to MaxMarkets with one of them
\* off in up to two fields, and every pair of markets off in up to one field.
ProposedMoneyMarkets ==
    {<<>>}
    \cup {Placed(mm, i, n) : mm \in TwoOffMarkets, i \in 1..MaxMarkets, n \in 1..MaxMarkets}
    \cup {<<m1, m2>> : m1 \in OneOffMarkets, m2 \in OneOffMarkets}

ProposedParams ==
    {NewParams(active, mms, count) :
        active \in BOOLEAN, mms \in ProposedMoneyMarkets,
        count \in {0 - 1, 0, DefaultCheckLtvIndexCount}}

ParamsInit ==
    /\ bank = InitialBank
    /\ pool = InitialModuleCoins
    /\ deposits = EmptyStore
    /\ borrows = EmptyStore
    /\ supplyFactor = EmptyStore
    /\ borrowFactor = EmptyStore
    /\ ltvIndex = {}
    /\ accruals = 0
    /\ steps = 0
    /\ last = [op |-> "Init", addr |-> "", payer |-> "", coins |-> EmptyCoins,
               err |-> "ok", max |-> NoMax, again |-> FALSE, had |-> FALSE]
    /\ trail = <<>>
    /\ params \in ProposedParams
    /\ validated = NotValidated

Keeper == <<bank, pool, deposits, borrows, supplyFactor, borrowFactor,
            ltvIndex, accruals, steps, last, trail>>

\* Params.Validate on the proposed parameters.
ValidateParams ==
    /\ validated' = [by |-> "Params", at |-> 0, err |-> ParamsValidate(params)]
    /\ UNCHANGED <<Keeper, params>>

\* MoneyMarkets.Validate on the proposed markets.
ValidateMoneyMarkets ==
    /\ validated' = [by |-> "MoneyMarkets", at |-> 0,
                     err |-> MoneyMarketsValidate(params.MoneyMarkets)]
    /\ UNCHANGED <<Keeper, params>>

\* MoneyMarket.Validate on the i-th of the proposed markets.
ValidateMoneyMarket(i) ==
    /\ i \in 1..Len(params.MoneyMarkets)
    /\ validated' = [by |-> "MoneyMarket", at |-> i,
                     err |-> MoneyMarketValidate(params.MoneyMarkets[i])]
    /\ UNCHANGED <<Keeper, params>>

ParamsNext ==
    \/ ValidateParams
    \/ ValidateMoneyMarkets
    \/ \E i \in 1..MaxMarkets : ValidateMoneyMarket(i)

ParamsSpec == ParamsInit /\ [][ParamsNext]_vars

\* ------------------------------------------------------------ properties
Handlers == {"Deposit", "Withdraw", "Borrow", "Repay"}

\* The sum of f[x] over the x in S.
RECURSIVE SumOver(_, _)
SumOver(S, f) ==
    IF S = {} THEN 0
    ELSE LET x == CHOOSE y \in S : TRUE IN f[x] + SumOver(S \ {x}, f)

\* Pool balance plus the spendable balances of all accounts, of one denom.
PoolAndSpendable(p, b, d) ==
    p[d] + SumOver(Accounts, [a \in Accounts |-> b[a][d]])

\* The amount of denom d in the stored position of addr, 0 without one.
AmountIn(store, addr, d) == IF Found(store, addr) THEN store[addr].Amount[d] ELSE 0

\* The amounts of the stored position of addr, none without one.
AmountOf(store, addr) == IF Found(store, addr) THEN store[addr].Amount ELSE EmptyCoins

\* C1 (amended): for every denom, in every reachable state (after successful
\* and failing calls, syncs and factor updates alike), the pool balance plus
\* the sum of all spendable balances equals its value at genesis: accrued
\* interest is written to the Deposit and Borrow records and moves no coins.
C1_Conservation ==
    \A d \in Denoms :
        PoolAndSpendable(pool, bank, d) = PoolAndSpendable(InitialModuleCoins, InitialBank, d)

\* A withdrawal that pays out accrued interest: 110 ukava for 100 deposited.
C1_Witness ==
    /\ last.op = "Withdraw" /\ last.err = "ok" /\ last.coins = Coin("ukava", 110)
    /\ pool["ukava"] = InitialModuleCoins["ukava"] - 10

\* C1 as claimed: pool + spendable changes by the net interest accrued, which
\* is the sum of the interest accrued per account; so a SyncSupplyInterest
\* call changes it by the interest the call credits to the Deposit records.
C1_AsClaimed ==
    [][last'.op = "SyncSupplyInterest" =>
        \A d \in Denoms :
            PoolAndSpendable(pool', bank', d) - PoolAndSpendable(pool, bank, d)
                = SumOver(Accounts, [a \in Accounts |->
                      AmountIn(deposits', a, d) - AmountIn(deposits, a, d)])]_vars

\* The positions of addr a Withdraw or Borrow step validates: the stored ones
\* brought up to date with the global factors.
SyncedDepositAmount(addr) ==
    AmountOf(SyncSupplyInterest(deposits, supplyFactor', addr), addr)
SyncedBorrowAmount(addr) ==
    AmountOf(SyncBorrowInterest(borrows, borrowFactor', addr), addr)

\* Total borrow value above total deposit value times the effective limit.
ExceedsLtv(depositAmount, borrowAmount) ==
    UsdValue(borrowAmount) > DecMul(UsdValue(depositAmount), EffectiveLtv(depositAmount))

\* The step is a Withdraw that reaches the loan-to-value check.
WithdrawChecked ==
    /\ last'.op = "Withdraw"
    /\ Found(deposits, last'.addr)
    /\ ~IsAnyNegative(SyncedDepositAmount(last'.addr), last'.coins)
\* The step is a Borrow that reaches the loan-to-value check.
BorrowChecked ==
    /\ last'.op = "Borrow"
    /\ CoinDenoms(last'.coins) \subseteq MoneyMarketDenoms

WithdrawExceeds ==
    ExceedsLtv(CoinsSub(SyncedDepositAmount(last'.addr), last'.coins),
               SyncedBorrowAmount(last'.addr))
BorrowExceeds ==
    ExceedsLtv(SyncedDepositAmount(last'.addr),
               CoinsAdd(SyncedBorrowAmount(last'.addr), last'.coins))

\* What a rejected call keeps: no coin moves, the risk index is as before and
\* the positions of the caller are the stored ones brought up to date.
OnlySynced(addr) ==
    /\ bank' = bank /\ pool' = pool /\ ltvIndex' = ltvIndex
    /\ supplyFactor' = supplyFactor
    /\ deposits' = SyncSupplyInterest(deposits, supplyFactor, addr)
    /\ borrows' = SyncBorrowInterest(borrows, borrowFactor', addr)

OnlyInitialised(before, after, coins) ==
    /\ DOMAIN before \subseteq DOMAIN after
    /\ \A d \in DOMAIN after :
          IF d \in DOMAIN before THEN after[d] = before[d]
          ELSE after[d] = OneDec /\ coins[d] > 0 /\ d \in MoneyMarketDenoms

MinCoins(a, b) == [d \in Denoms |-> IF a[d] < b[d] THEN a[d] ELSE b[d]]

\* C4: a successful Repay moves exactly min(requested, owed) of every asset
\* from the payer to the pool, the residual debt per asset is owed minus that
\* minimum, and the Borrow record is deleted iff every residual is zero and
\* persisted with the residual otherwise (owed = the interest-synced debt).
C4_RepayCapping ==
    [][(last'.op = "Repay" /\ last'.err = "ok") =>
        LET owed == SyncedBorrowAmount(last'.addr)
            pay == MinCoins(last'.coins, owed)
        IN  /\ bank' = [bank EXCEPT ![last'.payer] = CoinsSub(@, pay)]
            /\ pool' = CoinsAdd(pool, pay)
            /\ \A d \in Denoms : AmountIn(borrows', last'.addr, d) = owed[d] - pay[d]
            /\ Found(borrows', last'.addr) = (\E d \in Denoms : owed[d] - pay[d] > 0)
      ]_vars

\* Deposit 100 ukava, borrow 50 (200 spendable), repay request of 60: 50 are
\* transferred, the Borrow record is deleted and 150 stay spendable.
C4_Witness ==
    /\ last.op = "Repay" /\ last.err = "ok" /\ last.payer = "a1" /\ last.addr = "a1"
    /\ last.coins = Coin("ukava", 60)
    /\ AmountOf(deposits, "a1") = Coin("ukava", 100)
    /\ ~Found(borrows, "a1")
    /\ bank["a1"]["ukava"] = 150
    /\ pool["ukava"] = InitialModuleCoins["ukava"] + 100

\* The step is a Repay that reaches the check of the payer's funds: the
\* borrower has a Borrow record and owes every requested asset.
RepayFundsChecked ==
    /\ last'.op = "Repay"
    /\ Found(borrows, last'.addr)
    /\ DenomsSubsetOf(last'.coins, SyncedBorrowAmount(last'.addr))

\* The payer's spendable balance does not cover coins.
PayerShortOf(coins) == \E d \in Denoms : bank[last'.payer][d] < coins[d]

\* C5 (amended): Repay fails with the insufficient-balance error exactly when
\* the payer's spendable balance of some asset is less than the REQUESTED
\* amount of that asset; the comparison is made before the request is capped
\* at the owed amount.
C5_FundsCheckOnRequested ==
    [][RepayFundsChecked =>
        ((last'.err = "ErrInsufficientBalanceForRepay") = PayerShortOf(last'.coins))
      ]_vars

\* A repayment rejected although the payer could cover the capped amount:
\* 51 requested, 50 owed, 50 spendable.
C5_Witness ==
    /\ last.op = "Repay" /\ last.err = "ErrInsufficientBalanceForRepay"
    /\ last.coins = Coin("ukava", 51)
    /\ AmountOf(borrows, last.addr) = Coin("ukava", 50)
    /\ bank[last.payer]["ukava"] >= 50

\* C5 as claimed: the comparison is made against the capped amount.
C5_AsClaimed ==
    [][RepayFundsChecked =>
        ((last'.err = "ErrInsufficientBalanceForRepay")
            = PayerShortOf(MinCoins(last'.coins, SyncedBorrowAmount(last'.addr))))
      ]_vars

\* The error of the step names the payer's spendable balance of an asset it
\* is short of as the maximum repayable.
NamesSpendableAsMax ==
    /\ last'.err = "ErrInsufficientBalanceForRepay"
    /\ Len(last'.max) = 2
    /\ bank[last'.payer][last'.max[1]] < last'.coins[last'.max[1]]
    /\ last'.max[2] = bank[last'.payer][last'.max[1]]

RepayOfNotOwed ==
    /\ last'.op = "Repay"
    /\ Found(borrows, last'.addr)
    /\ ~DenomsSubsetOf(last'.coins, SyncedBorrowAmount(last'.addr))

\* The error of the step reports a maximum repayable of zero for a requested
\* asset that is not owed.
ReportsZeroMax ==
    /\ last'.err = "ErrExceedsOwedAmount"
    /\ Len(last'.max) = 2
    /\ last'.coins[last'.max[1]] > 0
    /\ SyncedBorrowAmount(last'.addr)[last'.max[1]] = 0
    /\ last'.max[2] = 0

DepositBySolvent ==
    /\ last'.op = "Deposit" /\ last'.err = "ok"
    /\ ~ExceedsLtv(SyncedDepositAmount(last'.addr), SyncedBorrowAmount(last'.addr))

\* The account of the step is within the limit after it.
SolventAfter ==
    ~ExceedsLtv(AmountOf(deposits', last'.addr), AmountOf(borrows', last'.addr))

\* C8 (amended): for an account within the limit before a successful Deposit
\* (on its interest-synced positions), the inequality still holds after the
\* Deposit provided every deposited asset has a max-LTV not below the
\* account's effective limit before the Deposit; depositing an asset with a
\* lower max-LTV lowers the limit of the whole deposit and can break it.
C8_DepositKeepsSolvency ==
    [][( /\ DepositBySolvent
         /\ \A d \in CoinDenoms(last'.coins) :
               LoanToValue(d) >= EffectiveLtv(SyncedDepositAmount(last'.addr)) )
        => SolventAfter]_vars

\* A further deposit of ukava by an account that has 100 ukava deposited and
\* 50 ukava borrowed.
C8_Witness ==
    /\ last.op = "Deposit" /\ last.err = "ok" /\ last.coins = Coin("ukava", 10)
    /\ AmountOf(deposits, "a1") = Coin("ukava", 110)
    /\ AmountOf(borrows, "a1") = Coin("ukava", 50)

\* C8 as claimed: the inequality holds after the Deposit for every deposited
\* asset set, including assets whose max-LTV differs from those held.
C8_AsClaimed ==
    [][DepositBySolvent => SolventAfter]_vars

\* C9: a SyncSupplyInterest call for an account that directly follows a
\* SyncSupplyInterest call for the same account (no global factor changes in
\* between) credits no interest and leaves the Deposit record, amounts and
\* index snapshots, identical.
C9_SyncIdempotence ==
    [][(last'.op = "SyncSupplyInterest" /\ last'.again) =>
        deposits' = deposits]_vars

\* A second sync in a row of a deposit that the first sync credited interest
\* to: 100 ukava grown to 110, the snapshot at the raised global factor.
C9_Witness ==
    /\ last.op = "SyncSupplyInterest" /\ last.again /\ last.addr = "a1"
    /\ AmountOf(deposits, "a1") = Coin("ukava", 110)
    /\ supplyFactor["ukava"] > OneDec
    /\ deposits["a1"].Index = <<NewInterestFactor("ukava", supplyFactor["ukava"])>>
    /\ bank["a1"]["ukava"] = InitialBank["a1"]["ukava"] - 100
    /\ steps = 4

\* No factor of the store is removed or lowered by the step.
NotDecreased(before, after) ==
    \A d \in DOMAIN before : d \in DOMAIN after /\ after[d] >= before[d]

\* C10: no step (handler, sync or periodic factor update) removes or lowers a
\* global interest factor; a Deposit leaves every stored supply factor as it
\* is and writes 1.0 exactly for the deposited assets that have a money
\* market and no stored factor.
C10_MonotonicFactors ==
    [][/\ NotDecreased(supplyFactor, supplyFactor')
       /\ NotDecreased(borrowFactor, borrowFactor')
       /\ last'.op = "Deposit" =>
            /\ OnlyInitialised(supplyFactor, supplyFactor', last'.coins)
            /\ \A d \in CoinDenoms(last'.coins) \cap MoneyMarketDenoms :
                  d \in DOMAIN supplyFactor'
            /\ borrowFactor' = borrowFactor
      ]_vars

\* A deposit of ukava made after the ukava supply factor was raised above
\* 1.0: the factor is still the raised one.
C10_Witness ==
    /\ last.op = "Deposit" /\ last.err = "ok" /\ last.coins["ukava"] > 0
    /\ Found(supplyFactor, "ukava") /\ supplyFactor["ukava"] > OneDec
    /\ accruals > 0

\* The number of entries of denom d in an index list.
EntriesOf(index, d) == Cardinality({i \in 1..Len(index) : index[i].Denom = d})

\* C11 as claimed: every stored Deposit record has exactly one index-list
\* entry for each asset in its balance set and none for an asset absent from
\* it.
C11_IndexInvariant ==
    \A a \in DOMAIN deposits : \A d \in Denoms :
        EntriesOf(deposits[a].Index, d) = IF deposits[a].Amount[d] > 0 THEN 1 ELSE 0

\* C12 as claimed: no stored Deposit record has an empty balance set.
C12_NoEmptyRecord ==
    \A a \in DOMAIN deposits : deposits[a].Amount # EmptyCoins

\* The account has an entry in the risk index.
InLtvIndex(index, addr) == \E e \in index : e[2] = addr

\* C13 as claimed: after every successful Deposit, Withdraw, Borrow or Repay
\* the risk index has an entry for the acting account iff the account has
\* both a Deposit record and a Borrow record.
C13_IndexMembership ==
    [][(last'.op \in Handlers /\ last'.err = "ok") =>
        (InLtvIndex(ltvIndex', last'.addr)
            = (Found(deposits', last'.addr) /\ Found(borrows', last'.addr)))]_vars

\* The step is a Deposit of some asset that is not a deposit denom.
DepositOfInvalidDenom ==
    /\ last'.op = "Deposit"
    /\ \E d \in CoinDenoms(last'.coins) : d \notin DepositDenoms

DepositShortOfFunds ==
    /\ last'.op = "Deposit"
    /\ CoinDenoms(last'.coins) \subseteq DepositDenoms
    /\ \E d \in Denoms : bank[last'.addr][d] < last'.coins[d]

SnapshotOf(index, d) ==
    IF FoundAtIndex(index, d) = 0 THEN ZeroDec ELSE index[FoundAtIndex(index, d)].Value

\* C16: a successful Deposit of an asset with a money market and no stored
\* supply factor sets the global supply factor of the asset to 1.0 and gives
\* the account an index snapshot of 1.0 for it, the balance of the asset is
\* the deposited amount, and a SyncSupplyInterest made right after the
\* Deposit accrues nothing: it leaves the record as the Deposit wrote it.
C16_FirstDeposit ==
    [][/\ (last'.op = "Deposit" /\ last'.err = "ok") =>
            \A d \in (CoinDenoms(last'.coins) \cap MoneyMarketDenoms)
                        \ DOMAIN supplyFactor :
                /\ Found(supplyFactor', d) /\ supplyFactor'[d] = OneDec
                /\ SnapshotOf(deposits'[last'.addr].Index, d) = OneDec
                /\ deposits'[last'.addr].Amount[d] = last'.coins[d]
                /\ SyncSupplyInterest(deposits', supplyFactor', last'.addr) = deposits'
       /\ ( /\ last.op = "Deposit" /\ last.err = "ok"
            /\ last'.op = "SyncSupplyInterest" /\ last'.addr = last.addr ) =>
                deposits' = deposits
      ]_vars

\* The first call deposits 100 ukava, the second syncs: factor and snapshot
\* are 1.0 and the balance is 100.
C16_Witness ==
    /\ last.op = "SyncSupplyInterest" /\ last.addr = "a1" /\ steps = 2
    /\ supplyFactor = [d \in {"ukava"} |-> OneDec]
    /\ deposits = [a \in {"a1"} |->
                      [Amount |-> Coin("ukava", 100),
                       Index |-> <<NewInterestFactor("ukava", OneDec)>>]]
    /\ bank["a1"]["ukava"] = InitialBank["a1"]["ukava"] - 100

\* C17 as claimed: a SyncSupplyInterest of an account with a Deposit record
\* leaves, for every asset of the balance set with an index entry, the
\* balance floor(stored_amount / snapshot_factor * current_factor), that is
\* it adds floor(...) - stored_amount, overwrites the snapshot with the
\* current global factor, and changes nothing else of the record.
C17_AccrualRule ==
    [][(last'.op = "SyncSupplyInterest" /\ Found(deposits, last'.addr)) =>
        LET before == deposits[last'.addr]
            after == deposits'[last'.addr]
        IN  \A d \in CoinDenoms(before.Amount) :
                FoundAtIndex(before.Index, d) # 0 =>
                    /\ after.Amount[d] =
                          (before.Amount[d] * GetInterestFactor(supplyFactor, d))
                              \div SnapshotOf(before.Index, d)
                    /\ SnapshotOf(after.Index, d) = GetInterestFactor(supplyFactor, d)
      ]_vars

\* The amount a1 deposited at FactorAtDeposit: what left its spendable
\* balance, which no sync changes.
DepositedAmount == InitialBank["a1"]["ukava"] - bank["a1"]["ukava"]

\* C18 as claimed: for a deposit touched by syncs only, the balance after any
\* number of syncs is at most stored_amount * fn / f0, f0 the factor at the
\* deposit and fn the factor at the last sync: the interest credited in
\* total never exceeds the true compounded value.
C18_NeverOverCredited ==
    deposits["a1"].Amount["ukava"] * FactorAtDeposit
        <= DepositedAmount * SnapshotOf(deposits["a1"].Index, "ukava")

\* C19: SyncSupplyInterest(account) changes at most the Deposit record of
\* that account: the global interest factors, the pool balance, the spendable
\* balances, the Borrow records, the risk index and the Deposit records of
\* all other accounts are as before, and no Deposit record appears or
\* disappears.
C19_SyncFrame ==
    [][last'.op = "SyncSupplyInterest" =>
        /\ UNCHANGED <<supplyFactor, borrowFactor, pool, bank, borrows, ltvIndex>>
        /\ DOMAIN deposits' = DOMAIN deposits
        /\ \A a \in DOMAIN deposits \ {last'.addr} : deposits'[a] = deposits[a]
      ]_vars

\* A sync of a1 that credited interest (100 ukava grown to 110) while a2
\* holds a Deposit record of 10 ukava still at its snapshot of 1.0.
C19_Witness ==
    /\ last.op = "SyncSupplyInterest" /\ last.addr = "a1"
    /\ AmountOf(deposits, "a1") = Coin("ukava", 110)
    /\ Found(deposits, "a2")
    /\ deposits["a2"] = [Amount |-> Coin("ukava", 10),
                         Index |-> <<NewInterestFactor("ukava", OneDec)>>]
    /\ supplyFactor["ukava"] > OneDec

\* C20: after a successful Deposit the account's deposit balance of every
\* asset is its interest-synced balance before the call plus the deposited
\* amount, the index snapshot of every asset of the new balance set (held
\* before or newly introduced) is the current global supply factor of the
\* asset, the account's spendable balance is down and the pool balance is up
\* by exactly the deposited amounts, and no other spendable balance changes.
C20_DepositMerge ==
    [][(last'.op = "Deposit" /\ last'.err = "ok") =>
        LET after == deposits'[last'.addr]
        IN  /\ Found(deposits', last'.addr)
            /\ after.Amount = CoinsAdd(SyncedDepositAmount(last'.addr), last'.coins)
            /\ \A d \in CoinDenoms(after.Amount) :
                  /\ Found(supplyFactor', d)
                  /\ SnapshotOf(after.Index, d) = supplyFactor'[d]
            /\ bank' = [bank EXCEPT ![last'.addr] = CoinsSub(@, last'.coins)]
            /\ pool' = CoinsAdd(pool, last'.coins)
      ]_vars

\* 100 usdx deposited by an account whose 100 ukava had 10 of interest
\* pending: the record holds 110 ukava at the raised factor and 100 usdx at
\* 1.0.
C20_Witness ==
    /\ last.op = "Deposit" /\ last.err = "ok" /\ last.coins = Coin("usdx", 100)
    /\ AmountOf(deposits, "a1") = Coins2("ukava", 110, "usdx", 100)
    /\ supplyFactor["ukava"] > OneDec
    /\ SnapshotOf(deposits["a1"].Index, "ukava") = supplyFactor["ukava"]
    /\ SnapshotOf(deposits["a1"].Index, "usdx") = OneDec
    /\ bank["a1"]["usdx"] = InitialBank["a1"]["usdx"] - 100

\* The balance set of a Deposit record with the interest of every asset up to
\* the current global factor added.
WithInterest(record, factors) ==
    [d \in Denoms |->
        IF record.Amount[d] > 0 /\ FoundAtIndex(record.Index, d) # 0
        THEN record.Amount[d]
             + CalculateInterest(record.Amount[d], SnapshotOf(record.Index, d),
                                 GetInterestFactor(factors, d))
        ELSE record.Amount[d]]

\* C21: a Withdraw by an account without a Deposit record fails with
\* ErrDepositNotFound; a Withdraw of more than the account's deposit balance
\* of some asset, interest up to the current global factor included, fails
\* with the negative-result error, and a Withdraw within that balance does
\* not; a Withdraw within that balance by an account without a Borrow record
\* passes the loan-to-value check (it succeeds unless the pool cannot pay).
C21_WithdrawPreconditions ==
    [][last'.op = "Withdraw" =>
        IF ~Found(deposits, last'.addr)
        THEN last'.err = "ErrDepositNotFound"
        ELSE LET balance == WithInterest(deposits[last'.addr], supplyFactor)
             IN  /\ IsAnyNegative(balance, last'.coins)
                        <=> last'.err = "ErrNegativeBorrowedCoins"
                 /\ (~IsAnyNegative(balance, last'.coins) /\ ~Found(borrows, last'.addr))
                        => last'.err \in {"ok", "ErrInsufficientFunds"}
      ]_vars

\* The whole of a deposit of 100 ukava and its 10 ukava of interest, not yet
\* credited when the call was made (the third call, after the deposit and the
\* factor update), withdrawn in one call by an account without a Borrow record.
C21_Witness ==
    /\ last.op = "Withdraw" /\ last.err = "ok" /\ last.coins = Coin("ukava", 110)
    /\ steps = 3
    /\ ~Found(borrows, "a1") /\ ~Found(deposits, "a1")
    /\ bank["a1"]["ukava"] = InitialBank["a1"]["ukava"] + 10

\* The step of the handler that a keeper call belongs to: 1 reading the risk
\* standing, 2 interest sync, 3 validation of the request, 4 the external
\* transfer, 5 the update of the position store, 6 the update of the risk
\* index.
StepOf(call) ==
    CASE call = "GetStoreLTV" -> 1
      [] call \in {"SyncBorrowInterest", "SyncSupplyInterest"} -> 2
      [] call \in {"ValidateDeposit", "GetDeposit", "SafeSub", "IsWithinValidLtvRange"} -> 3
      [] call \in {"SendCoinsFromAccountToModule", "SendCoinsFromModuleToAccount"} -> 4
      [] call \in {"SetDeposit", "DeleteDeposit"} -> 5
      [] call = "UpdateItemInLtvIndex" -> 6

\* The calls are made step after step and no step is left out.
InStepOrder(calls) ==
    /\ {StepOf(calls[i]) : i \in 1..Len(calls)} = 1..6
    /\ \A i, j \in 1..Len(calls) : i < j => StepOf(calls[i]) <= StepOf(calls[j])

\* C22: every successful Deposit and Withdraw reads the risk standing, syncs
\* borrow and supply interest, validates the request, makes the transfer,
\* updates the position store and at last updates the risk index, in this
\* order, the index update using the standing read at the start; a Deposit
\* or Withdraw whose transfer did not succeed leaves the Deposit record as
\* the sync left it.
C22_StepOrdering ==
    [][last'.op \in {"Deposit", "Withdraw"} =>
        IF last'.err = "ok"
        THEN /\ InStepOrder(trail')
             /\ ltvIndex' = UpdateItemInLtvIndex(ltvIndex, deposits', borrows',
                                GetStoreLTV(deposits, borrows, last'.addr), last'.addr)
        ELSE deposits' = SyncSupplyInterest(deposits, supplyFactor', last'.addr)
      ]_vars

\* C23: whatever calls, syncs and factor updates were made, the risk index
\* holds at most one entry per account.
C23_IndexUniqueness ==
    \A a \in Accounts : Cardinality({e \in ltvIndex : e[2] = a}) <= 1

\* The step is a Withdraw of the coins that the same account, without a Borrow
\* record, deposited with success in the call just before it.
WithdrawOfDeposited ==
    /\ last.op = "Deposit" /\ last.err = "ok"
    /\ last'.op = "Withdraw"
    /\ last'.addr = last.addr /\ last'.coins = last.coins
    /\ ~Found(borrows, last.addr)

\* C24: a Withdraw of the coins that the same account, without a Borrow
\* record, has just deposited succeeds when the pool holds them, and takes
\* the account's spendable balance, the pool balance and the account's
\* deposit balances back to what they were before the Deposit (which left
\* them changed by exactly the coins); the account has a Deposit record
\* afterwards iff it had one when the Deposit was made.
C24_RoundTrip ==
    [][(WithdrawOfDeposited /\ ~IsAnyNegative(pool, last.coins)) =>
        /\ last'.err = "ok"
        /\ bank' = [bank EXCEPT ![last.addr] = CoinsAdd(@, last.coins)]
        /\ pool' = CoinsSub(pool, last.coins)
        /\ AmountOf(deposits', last.addr)
              = CoinsSub(AmountOf(deposits, last.addr), last.coins)
        /\ Found(deposits', last.addr) <=> last.had
      ]_vars

\* The sum over all accounts of the amounts of denom d in their Deposit records.
SumOfDeposits(d) ==
    SumOver(Accounts, [a \in Accounts |-> AmountIn(deposits, a, d)])

\* C25: in every reachable state and for every asset, the total pooled amount
\* returned by the accessor, counted from what the pool holds at genesis,
\* equals the sum over all accounts of the amounts of the asset in their
\* Deposit records.
C25_TotalPooled ==
    \A d \in Denoms :
        GetTotalDeposited(d) - InitialModuleCoins[d] = SumOfDeposits(d)

\* A Dec within [0, 1].
InUnit(dec) == ZeroDec <= dec /\ dec <= OneDec

\* The money market has a valid denom and breaks none of the limits.
Acceptable(mm) ==
    /\ ValidateDenom(mm.Denom) = "ok"
    /\ InUnit(mm.InterestRateModel.BaseRateAPY)
    /\ InUnit(mm.InterestRateModel.Kink)
    /\ InUnit(mm.ReserveFactor)
    /\ InUnit(mm.KeeperRewardPercentage)
    /\ mm.InterestRateModel.BaseMultiplier >= ZeroDec
    /\ mm.InterestRateModel.JumpMultiplier >= ZeroDec
    /\ mm.BorrowLimit.LoanToValue > ZeroDec
    /\ mm.BorrowLimit.LoanToValue <= OneDec
    /\ mm.BorrowLimit.MaximumLimit >= ZeroDec
    /\ mm.AuctionSize > 0

AllAcceptable(mms) == \A i \in 1..Len(mms) : Acceptable(mms[i])

\* C26: MoneyMarket.Validate accepts a money market iff its denom is valid,
\* its base rate, kink, reserve factor and keeper reward lie in [0, 1], its
\* base and jump multipliers are not negative, its loan-to-value lies in
\* (0, 1], its maximum limit is not negative and its auction size is
\* positive; MoneyMarkets.Validate accepts iff every market is accepted, and
\* Params.Validate iff moreover CheckLtvIndexCount is not negative.
C26_MoneyMarketValidation ==
    /\ validated.by = "MoneyMarket" =>
          (validated.err = "ok" <=> Acceptable(params.MoneyMarkets[validated.at]))
    /\ validated.by = "MoneyMarkets" =>
          (validated.err = "ok" <=> AllAcceptable(params.MoneyMarkets))
    /\ validated.by = "Params" =>
          (validated.err = "ok" <=>
              (AllAcceptable(params.MoneyMarkets) /\ params.CheckLtvIndexCount >= 0))

\* Params.Validate rejects two markets, the first valid, the second with a
\* loan-to-value just above 1.0 and nothing else wrong, for that reason.
C26_Witness ==
    /\ validated.by = "Params"
    /\ validated.err = "loan-to-value cannot be greater than 1.0"
    /\ params.CheckLtvIndexCount = DefaultCheckLtvIndexCount
    /\ Len(params.MoneyMarkets) = 2
    /\ params.MoneyMarkets[1] = BaseMarket
    /\ params.MoneyMarkets[2] =
          WithField(BaseMarket, <<"BorrowLimit", "LoanToValue">>, OneDec + 1)

====
